---- MODULE Spec2Model ----
(***************************************************************************)
(* Model of jschain (src/app.js): a hash-linked chain of blocks held in    *)
(* memory, loaded from a document store at startup, extended by           *)
(* POST /mineBlock and compared against candidate chains by replaceChain.  *)
(*                                                                         *)
(* JavaScript values are records [t, n, s]: t is the type ("num", "str",   *)
(* "obj"), n the number (or the identity of an object's content), s the    *)
(* characters of a string.  A block carries, besides its five fields, the  *)
(* order of its keys, which JSON.stringify exposes.                        *)
(***************************************************************************)
EXTENDS Integers, Sequences, FiniteSets, Bags

(* ------------------------------ bounds -------------------------------- *)
MaxChain == 3
MaxStore == 3

(* ---------------------------- JS values ------------------------------- *)
Num(n) == [t |-> "num", n |-> n, s |-> <<>>]
Str(s) == [t |-> "str", n |-> 0, s |-> s]
Obj(k) == [t |-> "obj", n |-> k, s |-> <<>>]

DigitChar == <<"0", "1", "2", "3", "4", "5", "6", "7", "8", "9">>

RECURSIVE Digits(_)
Digits(n) == IF n < 10 THEN <<DigitChar[n + 1]>>
             ELSE Digits(n \div 10) \o <<DigitChar[(n % 10) + 1]>>

\* String(v): what the + operator and .toString() turn a value into.
JSString(v) == CASE v.t = "num" -> Digits(v.n)
                 [] v.t = "str" -> v.s
                 [] OTHER -> <<"[object Object]">>

\* a + b: numeric addition of two numbers, string concatenation otherwise.
JSPlus(a, b) == IF a.t = "num" /\ b.t = "num" THEN Num(a.n + b.n)
                ELSE Str(JSString(a) \o JSString(b))

\* CryptoJS.SHA512(message).toString(): a digest taken as collision-free on
\* the message string.
SHA512(message) == Str(<<"sha512(">> \o JSString(message) \o <<")">>)

\* JSON text of a value.
JSONValue(v) == CASE v.t = "num" -> Digits(v.n)
                  [] v.t = "str" -> <<"\"">> \o v.s \o <<"\"">>
                  [] OTHER -> <<"{">> \o Digits(v.n) \o <<"}">>

(* ------------------------------ blocks -------------------------------- *)
CtorKeys == <<"index", "previousHash", "timestamp", "data", "hash">>
FindKeys == <<"index", "data", "timestamp", "previousHash", "hash">>

Block(index, previousHash, timestamp, data, hash) ==
    [index |-> index, previousHash |-> Str(JSString(previousHash)),
     timestamp |-> timestamp, data |-> data, hash |-> Str(JSString(hash)),
     keys |-> CtorKeys]

RECURSIVE JSONMembers(_, _)
JSONMembers(obj, ks) ==
    IF ks = <<>> THEN <<>>
    ELSE <<"\"", Head(ks), "\"", ":">> \o JSONValue(obj[Head(ks)])
         \o (IF Len(ks) > 1 THEN <<",">> ELSE <<>>) \o JSONMembers(obj, Tail(ks))

\* JSON.stringify of a block: its members in the order of its keys.
JSONStringify(block) == <<"{">> \o JSONMembers(block, block.keys) \o <<"}">>

calculateHash(index, previousHash, timestamp, data) ==
    SHA512(JSPlus(JSPlus(JSPlus(index, previousHash), timestamp), data))

calculateHashForBlock(block) ==
    calculateHash(block.index, block.previousHash, block.timestamp, block.data)

GenesisTimestamp == 1465154705

getGenesisBlock ==
    Block(Num(0), Str(<<"0">>), Num(GenesisTimestamp),
          Str(<<"JSChain genesis block">>),
          Str(<<"816534932c2b7154836da6afc367695e6337db8a921823784c14378abed4f7d7">>))

\* isValidNewBlock without the recomputation of the hash.
isValidNewBlockNoHash(newBlock, previousBlock) ==
    IF JSPlus(previousBlock.index, Num(1)) # newBlock.index THEN FALSE
    ELSE IF previousBlock.hash # newBlock.previousHash THEN FALSE
    ELSE TRUE

isValidNewBlock(newBlock, previousBlock) ==
    IF JSPlus(previousBlock.index, Num(1)) # newBlock.index THEN FALSE
    ELSE IF previousBlock.hash # newBlock.previousHash THEN FALSE
    ELSE IF calculateHashForBlock(newBlock) # newBlock.hash THEN FALSE
    ELSE TRUE

\* isValidChain validating every element against the first one.
isValidChainAgainstFirst(blockchainToValidate) ==
    IF blockchainToValidate = <<>> THEN FALSE
    ELSE IF JSONStringify(blockchainToValidate[1]) # JSONStringify(getGenesisBlock)
    THEN FALSE
    ELSE \A i \in 2..Len(blockchainToValidate) :
            isValidNewBlock(blockchainToValidate[i], blockchainToValidate[1])

\* blockchainToValidate[0] of an empty array is undefined, and
\* JSON.stringify(undefined) is undefined, which differs from any string.
isValidChain(blockchainToValidate) ==
    IF blockchainToValidate = <<>> THEN FALSE
    ELSE IF JSONStringify(blockchainToValidate[1]) # JSONStringify(getGenesisBlock)
    THEN FALSE
    ELSE \A i \in 2..Len(blockchainToValidate) :
            isValidNewBlock(blockchainToValidate[i], blockchainToValidate[i - 1])

\* generateNextBlock hashing the previous block's index instead of the next.
NextBlockStaleIndex(previousBlock, now, blockData) ==
    LET nextIndex == JSPlus(previousBlock.index, Num(1))
        nextTimestamp == Num(now)
        nextHash == calculateHash(previousBlock.index, previousBlock.hash,
                                  nextTimestamp, blockData)
    IN  Block(nextIndex, previousBlock.hash, nextTimestamp, blockData, nextHash)

\* The block generateNextBlock builds on previousBlock at clock reading now.
NextBlock(previousBlock, now, blockData) ==
    LET nextIndex == JSPlus(previousBlock.index, Num(1))
        nextTimestamp == Num(now)
        nextHash == calculateHash(nextIndex, previousBlock.hash, nextTimestamp, blockData)
    IN  Block(nextIndex, previousBlock.hash, nextTimestamp, blockData, nextHash)


\* addBlock: the chain after addBlock(newBlock).
addBlock(chain, newBlock) ==
    IF isValidNewBlock(newBlock, chain[Len(chain)]) THEN Append(chain, newBlock)
    ELSE chain

\* replaceChain accepting a candidate of equal length.
replaceChainAny(chain, newBlocks) ==
    IF isValidChain(newBlocks) THEN newBlocks ELSE chain

replaceChainTies(chain, newBlocks) ==
    IF isValidChain(newBlocks) /\ Len(newBlocks) >= Len(chain) THEN newBlocks
    ELSE chain

\* replaceChain: the chain after replaceChain(newBlocks).
replaceChain(chain, newBlocks) ==
    IF isValidChain(newBlocks) /\ Len(newBlocks) > Len(chain) THEN newBlocks
    ELSE chain

\* A document as db.find hands it back: the members named by `fields`, in
\* that order.
Pick(doc) == [doc EXCEPT !.keys = FindKeys]

(* ------------------------------ inputs -------------------------------- *)
\* Block payloads: text or structured.
Payloads == {Str(<<"a">>), Obj(1)}

\* req.body.data of the POST /mineBlock requests.
MinePayloads == {Str(<<"a">>)}

\* new Date().getTime() / 1000
Clock == {1}

Level1 == {NextBlock(getGenesisBlock, now, d) : now \in Clock, d \in Payloads}
Level2 == {NextBlock(b, 1, d) : b \in Level1, d \in Payloads}

(* ------------------------------- state -------------------------------- *)
VARIABLES
    blockchain,  \* the in-memory chain (var blockchain); <<>> while unset
    phase,       \* "starting": startup's find in flight; "listening"; "failed"
    indexed,     \* the store's index 'block' exists
    store,       \* the documents in the database (a bag: ids are random)
    pending,     \* db.post calls in flight (a bag)
    last,        \* the last handler run: op; for a mine the chain before it,
                 \* the block built, whether res.json / insertBlock ran; for
                 \* a replace the candidate and the value returned; for a
                 \* restart and the load after it the chain lost; logged:
                 \* a catch has written the error to the console since
    call         \* the last direct call of a validator function

vars == <<blockchain, phase, indexed, store, pending, last, call>>

NoOp == [op |-> "none", before |-> <<>>, arg |-> <<>>, block |-> <<>>,
         replied |-> FALSE, posted |-> FALSE, ret |-> "undefined", logged |-> FALSE]
NoCall == [fn |-> "none", blocks |-> <<>>, ret |-> FALSE]

Init ==
    /\ blockchain = <<>>
    /\ phase = "starting"
    /\ indexed = FALSE
    /\ store = EmptyBag
    /\ pending = EmptyBag
    /\ last = NoOp
    /\ call = NoCall

(* ------------------------------ startup ------------------------------- *)
\* What db.find can return for the documents docs: every document once, by
\* ascending index when the query runs on the index 'block', by document id
\* (random) otherwise.
LoadResults(docs, byIndex) ==
    LET n == BagCardinality(docs)
    IN  {r \in [1..n -> BagToSet(docs)] :
            /\ \A d \in BagToSet(docs) :
                  Cardinality({i \in 1..n : r[i] = d}) = CopiesIn(d, docs)
            /\ byIndex => \A i, j \in 1..n : i < j => r[i].index.n <= r[j].index.n}

CreateIndexDone ==
    /\ ~indexed
    /\ indexed' = TRUE
    /\ UNCHANGED <<blockchain, phase, store, pending, last, call>>

StartupLoadOk ==
    /\ phase = "starting"
    /\ \E r \in LoadResults(store, indexed) :
          blockchain' = [i \in 1..Len(r) |-> Pick(r[i])]
    /\ phase' = "listening"
    /\ last' = [NoOp EXCEPT !.op = "load", !.before = last.before]
    /\ UNCHANGED <<indexed, store, pending, call>>

\* The catch of startup's find starting the server all the same.
StartupLoadFailListens ==
    /\ phase = "starting"
    /\ phase' = "listening"
    /\ last' = [NoOp EXCEPT !.op = "loadfail", !.logged = TRUE]
    /\ UNCHANGED <<blockchain, indexed, store, pending, call>>

StartupLoadFail ==
    /\ phase = "starting"
    /\ phase' = "failed"
    /\ last' = [NoOp EXCEPT !.op = "loadfail", !.logged = TRUE]
    /\ UNCHANGED <<blockchain, indexed, store, pending, call>>

\* The process stops and is started again: memory and writes in flight are lost.
Restart ==
    /\ phase # "starting"
    /\ phase' = "starting"
    /\ blockchain' = <<>>
    /\ pending' = EmptyBag
    /\ last' = [NoOp EXCEPT !.op = "restart", !.before = blockchain]
    /\ UNCHANGED <<indexed, store, call>>

(* ------------------------------ handlers ------------------------------ *)
\* POST /mineBlock.  The promise executor and its then-callback run without
\* another handler in between.  On an empty chain getLatestBlock() is
\* undefined, the executor throws, and the catch only logs.
MineBlock(data, now) ==
    /\ phase = "listening"
    /\ Len(blockchain) < MaxChain
    /\ BagCardinality(store) + BagCardinality(pending) < MaxStore
    /\ IF blockchain = <<>>
       THEN /\ last' = [NoOp EXCEPT !.op = "mine", !.logged = TRUE]
            /\ UNCHANGED <<blockchain, pending>>
       ELSE LET newBlock == NextBlock(blockchain[Len(blockchain)], now, data)
            IN  /\ blockchain' = addBlock(blockchain, newBlock)
                /\ pending' = pending (+) SetToBag({newBlock})
                /\ last' = [NoOp EXCEPT !.op = "mine", !.before = blockchain,
                                         !.block = <<newBlock>>,
                                         !.replied = TRUE, !.posted = TRUE]
    /\ UNCHANGED <<phase, indexed, store, call>>

\* POST /generategenesis
GenerateGenesis ==
    /\ phase = "listening"
    /\ BagCardinality(store) + BagCardinality(pending) < MaxStore
    /\ pending' = pending (+) SetToBag({getGenesisBlock})
    /\ last' = [NoOp EXCEPT !.op = "genesis", !.replied = TRUE, !.posted = TRUE]
    /\ UNCHANGED <<blockchain, phase, indexed, store, call>>

\* insertBlock's db.post resolves: the document is in the store.
PostOk ==
    /\ \E d \in BagToSet(pending) :
          /\ store' = store (+) SetToBag({d})
          /\ pending' = pending (-) SetToBag({d})
    /\ UNCHANGED <<blockchain, phase, indexed, last, call>>

\* insertBlock's catch dropping the error without a word.
PostFailSilent ==
    /\ \E d \in BagToSet(pending) : pending' = pending (-) SetToBag({d})
    /\ UNCHANGED <<blockchain, phase, indexed, store, last, call>>

\* insertBlock's catch taking the block back out of the chain.
PostFailRollsBack ==
    /\ \E d \in BagToSet(pending) : pending' = pending (-) SetToBag({d})
    /\ blockchain' = SubSeq(blockchain, 1, Len(blockchain) - 1)
    /\ last' = [last EXCEPT !.logged = TRUE]
    /\ UNCHANGED <<phase, indexed, store, call>>

\* insertBlock's db.post rejects: the catch logs.
PostFail ==
    /\ \E d \in BagToSet(pending) : pending' = pending (-) SetToBag({d})
    /\ last' = [last EXCEPT !.logged = TRUE]
    /\ UNCHANGED <<blockchain, phase, indexed, store, call>>

\* The candidate chains offered to replaceChain: valid ones of every length
\* up to MaxChain, and ones with a foreign first element or a broken link.
CandBlock(previousBlock) == NextBlock(previousBlock, 1, Str(<<"a">>))

RECURSIVE ValidCandidate(_)
ValidCandidate(n) ==
    IF n = 1 THEN <<getGenesisBlock>>
    ELSE LET c == ValidCandidate(n - 1) IN Append(c, CandBlock(c[n - 1]))

Candidates ==
    {<<>>, <<Pick(getGenesisBlock), CandBlock(getGenesisBlock)>>}
    \cup {ValidCandidate(n) : n \in 1..MaxChain}
    \cup {Append(ValidCandidate(n),
                 [CandBlock(ValidCandidate(n)[n]) EXCEPT !.previousHash = Str(<<"0">>)]) :
            n \in 1..(MaxChain - 1)}

ReplaceChain(newBlocks) ==
    /\ phase = "listening"
    /\ blockchain' = replaceChain(blockchain, newBlocks)
    /\ last' = [NoOp EXCEPT !.op = "replace", !.arg = newBlocks]
    /\ UNCHANGED <<phase, indexed, store, pending, call>>

Next ==
    \/ CreateIndexDone
    \/ StartupLoadOk
    \/ StartupLoadFail
    \/ Restart
    \/ \E data \in MinePayloads, now \in Clock : MineBlock(data, now)
    \/ GenerateGenesis
    \/ PostOk
    \/ PostFail
    \/ \E newBlocks \in Candidates : ReplaceChain(newBlocks)

Spec == Init /\ [][Next]_vars


(* ------------- a store that already holds documents ------------------- *)
\* The database file exists before the process starts and may hold documents
\* of an earlier writer: here a genesis record whose hash is stored as a
\* number (a corrupted predecessor).
ForeignDocs == {[getGenesisBlock EXCEPT !.hash = Num(7)]}

InitExt ==
    /\ blockchain = <<>>
    /\ phase = "starting"
    /\ indexed = FALSE
    /\ store \in {SetToBag({d}) : d \in ForeignDocs}
    /\ pending = EmptyBag
    /\ last = NoOp
    /\ call = NoCall

SpecExt == InitExt /\ [][Next]_vars

(* --------------- the validator functions called directly -------------- *)
FieldNames == {"index", "previousHash", "timestamp", "data", "hash"}

\* The values a field is overwritten with.
TamperValues(k) ==
    CASE k = "index" -> {Num(0), Num(1), Num(2), Num(3)}
      [] k = "previousHash" -> {Str(<<"0">>), getGenesisBlock.hash} \cup {b.hash : b \in Level1}
      [] k = "timestamp" -> {Num(1), Num(2), Num(12)}
      [] k = "data" -> Payloads \cup {Obj(2), Str(<<"b">>)}
      [] OTHER -> {Str(<<"0">>), getGenesisBlock.hash} \cup {b.hash : b \in Level1}

Tampers(b) ==
    UNION {{[b EXCEPT ![k] = v] : v \in TamperValues(k)} : k \in FieldNames} \ {b}

Preds == {getGenesisBlock, Pick(getGenesisBlock)} \cup Level1
Built == {NextBlock(p, now, d) : p \in Preds, now \in Clock, d \in Payloads}
PoolBlocks == Preds \cup Built \cup UNION {Tampers(b) : b \in Level1}

PoolChains ==
    Candidates
    \cup {<<g, b>> : g \in {getGenesisBlock, Pick(getGenesisBlock)},
                    b \in Level1 \cup UNION {Tampers(c) : c \in Level1}}
    \cup {<<getGenesisBlock, b, c>> : b \in Level1, c \in Level2}

CallIsValidNewBlock ==
    /\ \E newBlock \in PoolBlocks, previousBlock \in Preds \cup Level2 :
          call' = [fn |-> "isValidNewBlock", blocks |-> <<newBlock, previousBlock>>,
                   ret |-> isValidNewBlock(newBlock, previousBlock)]
    /\ UNCHANGED <<blockchain, phase, indexed, store, pending, last>>

CallIsValidChain ==
    /\ \E chain \in PoolChains :
          call' = [fn |-> "isValidChain", blocks |-> chain, ret |-> isValidChain(chain)]
    /\ UNCHANGED <<blockchain, phase, indexed, store, pending, last>>

\* One field of the candidate of a valid link is overwritten, the hash is not
\* recomputed, and the link is validated again.
CallTampered ==
    /\ \E p \in Preds, now \in Clock, d \in Payloads :
          LET b == NextBlock(p, now, d)
          IN  /\ isValidNewBlock(b, p)
              /\ \E t \in Tampers(b) :
                    call' = [fn |-> "tampered", blocks |-> <<t, p, b>>,
                             ret |-> isValidNewBlock(t, p)]
    /\ UNCHANGED <<blockchain, phase, indexed, store, pending, last>>

\* calculateHashForBlock is applied to two blocks and the digests are compared.
CallCalculateHashForBlock ==
    /\ \E a \in PoolBlocks, b \in PoolBlocks :
          call' = [fn |-> "calculateHashForBlock", blocks |-> <<a, b>>,
                   ret |-> calculateHashForBlock(a) = calculateHashForBlock(b)]
    /\ UNCHANGED <<blockchain, phase, indexed, store, pending, last>>

NextPure ==
    CallIsValidNewBlock \/ CallIsValidChain \/ CallTampered \/ CallCalculateHashForBlock

SpecPure == Init /\ [][NextPure]_vars

(* ------------------------------ claims -------------------------------- *)
\* Equality of two blocks on all five fields, whatever the order of their keys.
SameFields(a, b) == \A k \in FieldNames : a[k] = b[k]

\* C1: replaceChain is all-or-nothing and follows the longest-valid-chain
\* policy: after replaceChain(candidate) the chain is exactly the candidate if
\* isValidChain(candidate) and the candidate is strictly longer than the chain,
\* and exactly the chain held before otherwise.
C1_ReplaceLongestValid ==
    [][last'.op = "replace" =>
          blockchain' = IF isValidChain(last'.arg) /\ Len(last'.arg) > Len(blockchain)
                        THEN last'.arg ELSE blockchain]_vars

\* A candidate of two or more blocks has replaced the chain.
C1_Witness ==
    /\ last.op = "replace"
    /\ blockchain = last.arg
    /\ Len(blockchain) >= 2

\* C2 (as claimed): isValidChain(sequence) is true if and only if the sequence
\* is non-empty, its first element equals the Genesis Block on all five
\* fields, and every later element is a valid link on its predecessor.
C2_ValidChainIffStructural ==
    call.fn = "isValidChain" =>
        (call.ret <=>
            /\ call.blocks # <<>>
            /\ SameFields(call.blocks[1], getGenesisBlock)
            /\ \A i \in 2..Len(call.blocks) :
                  isValidNewBlock(call.blocks[i], call.blocks[i - 1]))

\* C3: for blocks whose index is an integer, isValidNewBlock(candidate,
\* predecessor) is true if and only if candidate.index = predecessor.index + 1,
\* candidate.previousHash = predecessor.hash, and the hash recomputed from the
\* candidate's index, previousHash, timestamp and data equals candidate.hash.
C3_ValidLinkIff ==
    call.fn = "isValidNewBlock" =>
        LET candidate == call.blocks[1]
            predecessor == call.blocks[2]
        IN  call.ret <=>
                /\ candidate.index.t = "num"
                /\ candidate.index.n = predecessor.index.n + 1
                /\ candidate.previousHash = predecessor.hash
                /\ calculateHashForBlock(candidate) = candidate.hash

\* A link was accepted.
C3_Witness ==
    /\ call.fn = "isValidNewBlock"
    /\ call.ret
    /\ call.blocks[2] # getGenesisBlock

\* C4 (as claimed): after startup the chain is always a valid chain: element 0
\* equals the Genesis Block, chain[i].index = i, and every later element is a
\* valid link on its predecessor.
C4_ChainAlwaysValid ==
    phase = "listening" =>
        /\ blockchain # <<>>
        /\ SameFields(blockchain[1], getGenesisBlock)
        /\ \A i \in 1..Len(blockchain) : blockchain[i].index = Num(i - 1)
        /\ \A i \in 2..Len(blockchain) : isValidNewBlock(blockchain[i], blockchain[i - 1])

\* C5 (as claimed): after startup the chain is non-empty, and it is exactly
\* [Genesis Block] when the store was empty at startup.
C5_NonEmptyAfterStartup ==
    phase = "listening" =>
        /\ blockchain # <<>>
        /\ (last.op = "load" /\ store = EmptyBag =>
               Len(blockchain) = 1 /\ SameFields(blockchain[1], getGenesisBlock))

\* C6: a mine on a chain whose last block is L returns a block B with
\* B.index = L.index + 1 and B.previousHash = L.hash that is a valid link on L,
\* and leaves the chain as the previous chain with exactly B appended.
C6_MineAppendsValidLink ==
    last.op = "mine" /\ last.before # <<>> =>
        LET L == last.before[Len(last.before)]
        IN  /\ last.replied
            /\ Len(last.block) = 1
            /\ last.block[1].index = Num(L.index.n + 1)
            /\ last.block[1].previousHash = L.hash
            /\ isValidNewBlock(last.block[1], L)
            /\ blockchain = Append(last.before, last.block[1])

\* A mine on a chain loaded from the store has appended its block.
C6_Witness ==
    /\ last.op = "mine"
    /\ Len(last.before) >= 2
    /\ blockchain = Append(last.before, last.block[1])

C8_RejectedMineIsError ==
    (/\ last.op = "mine"
     /\ last.block # <<>>
     /\ ~isValidNewBlock(last.block[1], last.before[Len(last.before)])) =>
        /\ blockchain = last.before
        /\ ~last.posted
        /\ ~last.replied

\* C9 (as claimed): every POST /mineBlock request has received a response once
\* its handler has run to its end.
C9_MineAlwaysReplies ==
    last.op = "mine" => last.replied

\* C10 (as claimed): overwriting any one field of the candidate of a valid
\* link with a different value, the hash not recomputed, makes the link invalid.
C10_TamperDetected ==
    call.fn = "tampered" => ~call.ret


\* A step of the POST /mineBlock handler that built a block.
MineStep ==
    /\ last'.op = "mine"
    /\ last'.block # <<>>
    /\ BagCardinality(pending') > BagCardinality(pending)

\* C11 (as claimed): no two mine calls of one run produce blocks claiming the
\* same index: the block a mine returns and persists never has the index of
\* the block the mine before it returned and persisted.
C11_MinesClaimDistinctIndex ==
    [][(last.op = "mine" /\ last.block # <<>> /\ MineStep) =>
          last'.block[1].index # last.block[1].index]_vars

\* C12: no request is handled unless the startup load has succeeded, and a
\* process whose startup load failed never starts listening.
C12_NoRequestBeforeLoad ==
    [][/\ (last'.op \in {"mine", "genesis", "replace"} => phase' = "listening")
       /\ (phase = "failed" => phase' \in {"failed", "starting"})
       /\ (phase' = "listening" /\ phase # "listening" => last'.op = "load")]_vars

\* The startup load has failed and the process is not listening.
C12_Witness ==
    /\ phase = "failed"
    /\ last.op = "loadfail"
    /\ BagCardinality(store) > 0

\* C13 (as claimed): the store holds at most one record per distinct block.
C13_StoreIdempotent ==
    \A d \in BagToSet(store) : CopiesIn(d, store) <= 1


\* A step in which a db.post of insertBlock was rejected.
PostFailStep ==
    /\ BagCardinality(pending') < BagCardinality(pending)
    /\ store' = store
    /\ phase' = phase

\* C14: a mine that appends its block to the chain hands exactly that block
\* to the store exactly once, and every rejected write is logged.
C14_ForwardedOnceFailureLogged ==
    [][/\ (last'.op = "mine" /\ blockchain' # blockchain =>
              /\ last'.posted
              /\ pending' = pending (+) SetToBag({blockchain'[Len(blockchain')]})
              /\ blockchain' = Append(blockchain, blockchain'[Len(blockchain')]))
       /\ (PostFailStep => last'.logged)]_vars

\* The write of a mined block that is in the chain was rejected and logged.
C14_Witness ==
    /\ last.op = "mine"
    /\ last.block # <<>>
    /\ last.logged
    /\ pending = EmptyBag
    /\ blockchain = Append(last.before, last.block[1])
    /\ CopiesIn(last.block[1], store) = 0

\* C15: a rejected store write leaves the in-memory chain as it is.
C15_PostFailKeepsChain ==
    [][PostFailStep => blockchain' = blockchain]_vars

\* A mine has built on a block mined in this run, on a chain loaded from the
\* store, whose write had been rejected.
C15_Witness ==
    /\ last.op = "mine"
    /\ Len(last.before) >= 2
    /\ blockchain = Append(last.before, last.block[1])
    /\ CopiesIn(last.before[Len(last.before)], store) = 0
    /\ CopiesIn(last.before[Len(last.before)], pending) = 0
    /\ last.before[Len(last.before)].keys = CtorKeys
    /\ last.before[1].keys = FindKeys

\* C16 (as claimed): replaceChain returns true exactly when it replaced the
\* chain and false exactly when it kept it.
C16_ReplaceReturnsOutcome ==
    [][last'.op = "replace" /\ last' # last =>
          last'.ret = (IF blockchain' = last'.arg /\ blockchain' # blockchain
                       THEN "true" ELSE "false")]_vars


\* C17: the chain startup loads is ordered by ascending index, whether or not
\* the creation of the index 'block' had completed when the query ran.
C17_LoadedAscending ==
    last.op = "load" =>
        \A i, j \in 1..Len(blockchain) :
            i < j => blockchain[i].index.n <= blockchain[j].index.n

IsPrefixByFields(p, c) ==
    /\ Len(p) <= Len(c)
    /\ \A i \in 1..Len(p) : SameFields(p[i], c[i])

\* C18: after a stop and a start the loaded chain is a prefix of the chain
\* held in memory before the stop, also when some writes were rejected.
\* Stated for the favourable case: the earlier chain had itself been loaded
\* from the store and grown by mining, the query ran on the index, and the
\* store holds one record per index.
C18_LoadedIsPrefix ==
    (/\ last.op = "load"
     /\ last.before # <<>>
     /\ last.before[1].keys = FindKeys
     /\ indexed
     /\ \A d, e \in BagToSet(store) : d.index = e.index => d = e
     /\ \A d \in BagToSet(store) : CopiesIn(d, store) = 1)
    => IsPrefixByFields(blockchain, last.before)


HashedFields == {"index", "previousHash", "timestamp", "data"}

\* C19: two blocks that differ in index, previousHash, timestamp or data never
\* have the same computed hash (the digest itself taken as collision-free).
C19_HashIdentifiesFields ==
    (/\ call.fn = "calculateHashForBlock"
     /\ \E k \in HashedFields : call.blocks[1][k] # call.blocks[2][k])
    => ~call.ret


\* C20: while the process runs, no step (mine, replace, /generategenesis,
\* the settling of a write) makes the chain shorter; only a stop of the
\* process empties it.
C20_LengthNeverDecreases ==
    [][~(phase # "starting" /\ phase' = "starting") =>
          Len(blockchain') >= Len(blockchain)]_vars

\* replaceChain has kept a chain against a valid candidate that is shorter.
C20_Witness ==
    /\ last.op = "replace"
    /\ isValidChain(last.arg)
    /\ Len(last.arg) < Len(blockchain)

====
